---------------------------- MODULE Spec2Model ----------------------------
(***************************************************************************)
(* Loop search over a street-network graph (lohenrotte/findyourway).       *)
(*                                                                         *)
(* The repository holds two variants of one script:                        *)
(*   "main"  src/src/main.py        preprocess_graph, threshold 50 m,      *)
(*                                  symmetric margin band                  *)
(*   "copy"  src/src/main copy.py   preprocess_walk_graph, threshold 100 m,*)
(*                                  "at least" closing rule                *)
(* The variable `variant` says which script runs.                          *)
(*                                                                         *)
(* The graph is a networkx multigraph with directed edges (osmnx hands out *)
(* a MultiDiGraph): G.nodes maps a node id to its coordinates, G.edges is  *)
(* the set of edges (u, v, k) with their data dictionary (length and       *)
(* highway, either of which may be absent).                                *)
(*                                                                         *)
(* Lengths and distances are metres as integers; margin is a percentage,   *)
(* so that (1 - margin) * target <= dist reads                             *)
(* (100 - margin) * target <= 100 * dist.                                  *)
(***************************************************************************)
EXTENDS Integers, Sequences, FiniteSets, TLC

VARIABLES
    variant,        \* "main" | "copy": which script is running
    mode,           \* network_type handed to the preprocessing
    G,              \* the graph object (mutated in place by preprocessing)
    G0,             \* history: the graph as it was before the first cleaning
    runs,           \* history: number of preprocessing calls made on G
    start,          \* start node of the search
    target_dist,    \* find_top_loops argument
    margin,         \* find_top_loops argument, in percent
    attempts,       \* find_top_loops argument
    top_k,          \* find_top_loops argument
    max_steps,      \* random_loop argument
    i,              \* find_top_loops: loop variable of the for loop
    results,        \* find_top_loops: list of (score, path, dist)
    seen_hashes,    \* find_top_loops: set of path hashes
    path,           \* random_loop local
    dist,           \* random_loop local
    steps,          \* random_loop local
    node,           \* random_loop local
    visited_edges,  \* random_loop local
    node_visits,    \* random_loop local
    ret,            \* value returned by the last random_loop call
    output,         \* value returned by find_top_loops
    candidates,     \* history: the candidates the attempts returned, in order
    pc              \* control position

graphVars  == <<variant, mode, G, G0, runs>>
configVars == <<start, target_dist, margin, attempts, top_k, max_steps>>
engineVars == <<i, results, seen_hashes, output, candidates>>
walkVars   == <<path, dist, steps, node, visited_edges, node_visits, ret>>
vars == <<graphVars, configVars, engineVars, walkVars, pc>>

(***************************************************************************)
(* Bounds of the model.                                                    *)
(***************************************************************************)
MaxEdges == 2       \* edges the acquisition loads into a raw graph
MaxRuns  == 2       \* preprocessing calls made on one graph object

(***************************************************************************)
(* Graph access (networkx).                                                *)
(***************************************************************************)
Abs(x) == IF x < 0 THEN -x ELSE x

\* d.get("length", default)
GetLength(e, default) == IF e.has_length THEN e.length ELSE default

\* the three shapes of d.get("highway"): absent (None), a string, a list
NoHighway      == [kind |-> "none", tags |-> <<>>]
StrHighway(t)  == [kind |-> "str",  tags |-> <<t>>]
ListHighway(s) == [kind |-> "list", tags |-> s]

Edge(u, v, k, has, len, hw) ==
    [u |-> u, v |-> v, k |-> k, has_length |-> has, length |-> len, highway |-> hw]

NodeIds(g) == DOMAIN g.nodes

\* G.remove_edges_from(ebunch): edges of ebunch not in the graph are ignored
remove_edges_from(g, ebunch) == [g EXCEPT !.edges = @ \ ebunch]

\* nx.isolates(G): the nodes of degree 0 (a self-loop gives its node degree 2)
isolates(g) == {n \in NodeIds(g) : ~\E e \in g.edges : e.u = n \/ e.v = n}

\* G.remove_nodes_from(nodes): the nodes go, and every edge at one of them
remove_nodes_from(g, ns) ==
    [nodes |-> [n \in NodeIds(g) \ ns |-> g.nodes[n]],
     edges |-> {e \in g.edges : e.u \notin ns /\ e.v \notin ns}]

(***************************************************************************)
(* Preprocessing.                                                          *)
(***************************************************************************)
MIN_LENGTH_MAIN == 7
MIN_LENGTH_COPY == 5

bad_tags == {"steps", "corridor", "platform"}

bad_highway_tags ==
    {"steps", "corridor", "escalator", "elevator", "platform",
     "raceway", "proposed", "construction", "service", "footway"}

\* a tag test that looks at the first tag only, of a list as of a string
HasBadTag_FirstOnly(e, bad) ==
    e.highway.kind \in {"str", "list"} /\ e.highway.tags[1] \in bad

\* the isinstance(highway, list) / elif highway in bad test of both scripts
HasBadTag(e, bad) ==
    IF e.highway.kind = "list"
    THEN \E j \in DOMAIN e.highway.tags : e.highway.tags[j] \in bad
    ELSE e.highway.kind = "str" /\ e.highway.tags[1] \in bad

\* main.py: short edges go first, then (walk only) the bad tags among the
\* edges that are left; no node is removed
preprocess_graph(g, m) ==
    LET g1 == remove_edges_from(g,
                  {e \in g.edges : GetLength(e, 0) < MIN_LENGTH_MAIN})
    IN  IF m = "walk"
        THEN remove_edges_from(g1, {e \in g1.edges : HasBadTag(e, bad_tags)})
        ELSE g1

\* a cleaning that looks for the isolated nodes before it removes the edges
preprocess_walk_graph_IsolatesFirst(g) ==
    LET iso == isolates(g)
        g1  == remove_edges_from(g,
                  {e \in g.edges : \/ HasBadTag(e, bad_highway_tags)
                                   \/ GetLength(e, 0) < MIN_LENGTH_COPY})
    IN  remove_nodes_from(g1, iso)

\* main copy.py: one pass collects bad-tag and short edges, then the
\* isolated nodes of what is left are removed
preprocess_walk_graph(g) ==
    LET g1 == remove_edges_from(g,
                  {e \in g.edges : \/ HasBadTag(e, bad_highway_tags)
                                   \/ GetLength(e, 0) < MIN_LENGTH_COPY})
    IN  remove_nodes_from(g1, isolates(g1))

\* the call main() makes: G = preprocess_graph(G, network_type) in main.py,
\* G = preprocess_walk_graph(G) in main copy.py
clean(g, m) ==
    IF variant = "main" THEN preprocess_graph(g, m) ELSE preprocess_walk_graph(g)

(***************************************************************************)
(* Raw graphs as the acquisition hands them out.                           *)
(***************************************************************************)
PreNodeIds == {1, 2}

Origin == [x |-> 0, y |-> 0]

EmptyGraph == [nodes |-> [n \in PreNodeIds |-> Origin], edges |-> {}]

\* the data dictionaries an edge is loaded with
RawLengths  == {<<FALSE, 0>>, <<TRUE, 6>>, <<TRUE, 10>>}
RawHighways == {NoHighway, StrHighway("residential"), StrHighway("footway"),
                StrHighway("steps"), ListHighway(<<"residential", "steps">>)}

\* MultiDiGraph.add_edge without a key: the new key is the number of edges
\* already between u and v
new_edge_key(g, u, v) == Cardinality({e \in g.edges : e.u = u /\ e.v = v})

add_edge(g, u, v, l, hw) ==
    [g EXCEPT !.edges = @ \cup {Edge(u, v, new_edge_key(g, u, v), l[1], l[2], hw)}]

(***************************************************************************)
(* The search is idle while the preprocessing specification runs.          *)
(***************************************************************************)
NoPath == <<>>
NegInf == "-inf"
NoRet  == [path |-> NoPath, dist |-> 0, score |-> NegInf]

IdleConfig ==
    /\ start = 1
    /\ target_dist = 0
    /\ margin = 0
    /\ attempts = 0
    /\ top_k = 0
    /\ max_steps = 0

IdleEngine ==
    /\ i = 0
    /\ results = <<>>
    /\ seen_hashes = {}
    /\ output = <<>>
    /\ candidates = <<>>

IdleWalk ==
    /\ path = NoPath
    /\ dist = 0
    /\ steps = 0
    /\ node = 1
    /\ visited_edges = {}
    /\ node_visits = [n \in {} |-> 0]
    /\ ret = NoRet

(***************************************************************************)
(* SpecPre: a raw graph is loaded edge by edge, then cleaned, and cleaned  *)
(* again by a caller that re-runs the preprocessing on its own output.     *)
(***************************************************************************)
\* main.py takes the network type; main copy.py is the walking variant
Calls == {<<"main", "walk">>, <<"main", "bike">>, <<"copy", "walk">>}

InitPre ==
    /\ \E vm \in Calls : variant = vm[1] /\ mode = vm[2]
    /\ G = EmptyGraph
    /\ G0 = EmptyGraph
    /\ runs = 0
    /\ IdleConfig /\ IdleEngine /\ IdleWalk
    /\ pc = "load"

\* ox.graph_from_point: one more edge of the raw graph
LoadEdge ==
    /\ pc = "load"
    /\ Cardinality(G.edges) < MaxEdges
    /\ \E u \in PreNodeIds, v \in PreNodeIds, l \in RawLengths, hw \in RawHighways :
          G' = add_edge(G, u, v, l, hw)
    /\ UNCHANGED <<variant, mode, G0, runs, configVars, engineVars, walkVars, pc>>

\* G = preprocess...(G): the graph object is cleaned in place
Preprocess ==
    /\ pc \in {"load", "clean"}
    /\ runs < MaxRuns
    /\ G' = clean(G, mode)
    /\ G0' = IF runs = 0 THEN G ELSE G0
    /\ runs' = runs + 1
    /\ pc' = "clean"
    /\ UNCHANGED <<variant, mode, configVars, engineVars, walkVars>>

NextPre == LoadEdge \/ Preprocess

SpecPre == InitPre /\ [][NextPre]_vars

(***************************************************************************)
(* Bounds of the search model.                                             *)
(***************************************************************************)
MaxSteps    == 4    \* stands for random_loop's max_steps
MaxAttempts == 2    \* largest attempts argument
MaxTopK     == 2    \* largest top_k argument

(***************************************************************************)
(* is_close_to_start.  ox.distance.great_circle is a collaborator; on the  *)
(* small coordinates of the model the distance between two points is taken *)
(* as |dy| + |dx| metres.                                                  *)
(***************************************************************************)
THRESHOLD_M_MAIN == 50
THRESHOLD_M_COPY == 100

great_circle(y1, x1, y0, x0) == Abs(y1 - y0) + Abs(x1 - x0)

threshold_m == IF variant = "main" THEN THRESHOLD_M_MAIN ELSE THRESHOLD_M_COPY

is_close_to_start(g, n, s) ==
    great_circle(g.nodes[n].y, g.nodes[n].x, g.nodes[s].y, g.nodes[s].x) < threshold_m

(***************************************************************************)
(* score_path.                                                             *)
(***************************************************************************)
SUBLOOP_WINDOW_MAIN == 20
SUBLOOP_WINDOW_COPY == 30
W_UNIQUE          == 10
W_REPEAT_MAIN     == 20
W_REPEAT_COPY     == 40
W_SUBLOOP_MAIN    == 25
W_SUBLOOP_COPY    == 30
W_EDGE_REPEAT     == 20

\* set(path)
NodeSet(p) == {p[j] : j \in DOMAIN p}

\* the loop over enumerate(path): last_seen maps a node to the index of its
\* latest occurrence, subloops counts the returns within the window
RECURSIVE SubloopScan(_, _, _, _, _)
SubloopScan(p, j, last_seen, subloops, window) ==
    IF j > Len(p) THEN subloops
    ELSE LET n   == p[j]
             hit == n \in DOMAIN last_seen /\ j - last_seen[n] < window
         IN  SubloopScan(p, j + 1,
                         [m \in DOMAIN last_seen \cup {n} |->
                             IF m = n THEN j ELSE last_seen[m]],
                         IF hit THEN subloops + 1 ELSE subloops,
                         window)

Subloops(p, window) == SubloopScan(p, 1, [m \in {} |-> 0], 0, window)

\* main.py score_path(path, dist, target_dist)
score_path_main(p, d, t) ==
    LET unique_nodes == Cardinality(NodeSet(p))
        repeated     == Len(p) - unique_nodes
        subloops     == Subloops(p, SUBLOOP_WINDOW_MAIN)
    IN  0 - Abs(d - t)
          + unique_nodes * W_UNIQUE
          - repeated * W_REPEAT_MAIN
          - subloops * W_SUBLOOP_MAIN

\* main copy.py score_path(path, dist, target_dist, visited_edges)
score_path_copy(p, d, t, ve) ==
    LET unique_nodes   == Cardinality(NodeSet(p))
        repeated_nodes == Len(p) - unique_nodes
        subloops       == Subloops(p, SUBLOOP_WINDOW_COPY)
        repeated_edges == Cardinality({e \in DOMAIN ve : ve[e] > 1})
    IN  0 - Abs(d - t)
          + unique_nodes * W_UNIQUE
          - repeated_nodes * W_REPEAT_COPY
          - subloops * W_SUBLOOP_COPY
          - repeated_edges * W_EDGE_REPEAT

subloop_window == IF variant = "main" THEN SUBLOOP_WINDOW_MAIN ELSE SUBLOOP_WINDOW_COPY

\* a score without the repeated-node term
score_path_NoRepeatTerm(p, d, t, ve) ==
    0 - Abs(d - t)
      + Cardinality(NodeSet(p)) * W_UNIQUE
      - Subloops(p, subloop_window)
          * (IF variant = "main" THEN W_SUBLOOP_MAIN ELSE W_SUBLOOP_COPY)
      - (IF variant = "main" THEN 0
         ELSE Cardinality({e \in DOMAIN ve : ve[e] > 1}) * W_EDGE_REPEAT)

score_path(p, d, t, ve) ==
    IF variant = "main" THEN score_path_main(p, d, t) ELSE score_path_copy(p, d, t, ve)

(***************************************************************************)
(* random_loop.                                                            *)
(***************************************************************************)
NODE_VISIT_CAP == 3
DEFAULT_EDGE_LENGTH == 1

\* find_top_loops never passes max_steps, so random_loop runs with its
\* default
MAX_STEPS_MAIN == 120
MAX_STEPS_COPY == 200

default_max_steps == IF variant = "main" THEN MAX_STEPS_MAIN ELSE MAX_STEPS_COPY

\* list(G[node]): the nodes some edge leads to from n
Neighbors(g, n) == {e.v : e \in {d \in g.edges : d.u = n}}

\* random.shuffle(neighbors): every order of the neighbors
RECURSIVE Shuffles(_)
Shuffles(S) ==
    IF S = {} THEN {<<>>}
    ELSE UNION {{<<x>> \o rest : rest \in Shuffles(S \ {x})} : x \in S}

\* the node ids of the graphs searched, and the orders of every set of
\* neighbors among them, computed once
SearchNodeIds == {1, 2, 3, 4, 5, 6}

ShuffleTable == [S \in SUBSET SearchNodeIds |-> Shuffles(S)]

\* G.get_edge_data(node, neighbor): the parallel edges from n to nb
get_edge_data(g, n, nb) == {e \in g.edges : e.u = n /\ e.v = nb}

\* list(...values())[0]: the first of the parallel edges, the lowest key
FirstEdge(g, n, nb) ==
    CHOOSE e \in get_edge_data(g, n, nb) :
        \A d \in get_edge_data(g, n, nb) : e.k <= d.k

\* the three `continue`s of the scan: the neighbor is the node before the
\* current one, it has reached the visit cap, or the edge lookup raised
\* (a test against path[-1], the current node, in place of path[-2])
IsBacktrack_CurrentNode(p, nb) == Len(p) >= 2 /\ nb = p[Len(p)]

IsBacktrack(p, nb) == Len(p) >= 2 /\ nb = p[Len(p) - 1]

Skipped(g, p, nv, n, nb) ==
    \/ IsBacktrack(p, nb)
    \/ nv[nb] >= NODE_VISIT_CAP
    \/ get_edge_data(g, n, nb) = {}

\* the for loop over the shuffled neighbors: the walk moves to the first
\* neighbor of the order that is not skipped (ok: the neighbors not skipped)
FirstEligible(order, ok) ==
    order[CHOOSE j \in DOMAIN order :
             /\ order[j] \in ok
             /\ \A m \in 1..(j - 1) : order[m] \notin ok]

\* the neighbors the scan can end on, over every order the shuffle can
\* produce; empty when every neighbor is skipped (moved stays False)
Choices(g, p, nv, n) ==
    LET ok == {nb \in Neighbors(g, n) : ~Skipped(g, p, nv, n, nb)}
    IN  IF ok = {} THEN {}
        ELSE {FirstEligible(order, ok) : order \in ShuffleTable[Neighbors(g, n)]}

\* tuple(sorted((node, neighbor)))
SortedPair(a, b) == IF a <= b THEN <<a, b>> ELSE <<b, a>>

\* visited_edges is a set of (node, neighbor) in main.py and a
\* defaultdict(int) keyed by the sorted pair in main copy.py
EmptyVisitedEdges == IF variant = "main" THEN {} ELSE [e \in {} |-> 0]

RecordEdge(ve, n, nb) ==
    IF variant = "main"
    THEN ve \cup {<<n, nb>>}
    ELSE LET key == SortedPair(n, nb)
         IN  [e \in DOMAIN ve \cup {key} |->
                 IF e = key
                 THEN (IF key \in DOMAIN ve THEN ve[key] ELSE 0) + 1
                 ELSE ve[e]]

\* the test on the accumulated distance: a band in main.py, a lower bound
\* only in main copy.py
DistanceOk(d, t, m) ==
    IF variant = "main"
    THEN (100 - m) * t <= 100 * d /\ 100 * d <= (100 + m) * t
    ELSE 100 * d >= (100 - m) * t

Closing(g, d, t, m, n, s) == DistanceOk(d, t, m) /\ is_close_to_start(g, n, s)

\* a loop condition that lets one step too many through
LoopCondition_OffByOne(st) == st <= max_steps

\* the loop condition of `while steps < max_steps`
LoopCondition(st) == st < max_steps

(***************************************************************************)
(* find_top_loops.                                                         *)
(***************************************************************************)
\* tuple(sorted(set(path)))
RECURSIVE SortedTuple(_)
SortedTuple(S) ==
    IF S = {} THEN <<>>
    ELSE LET m == CHOOSE a \in S : \A b \in S : a <= b
         IN  <<m>> \o SortedTuple(S \ {m})

\* a hash that keeps the order of the walk: tuple(path)
path_hash_Ordered(p) == p

path_hash(p) == SortedTuple(NodeSet(p))

\* Python's order on lists of node ids
RECURSIVE ListLess(_, _)
ListLess(a, b) ==
    IF b = <<>> THEN FALSE
    ELSE IF a = <<>> THEN TRUE
    ELSE IF Head(a) # Head(b) THEN Head(a) < Head(b)
    ELSE ListLess(Tail(a), Tail(b))

\* Python's order on the tuples (score, path, dist)
TupleLess(a, b) ==
    \/ a.score < b.score
    \/ a.score = b.score /\ ListLess(a.path, b.path)
    \/ a.score = b.score /\ a.path = b.path /\ a.dist < b.dist

RemoveAt(seq, j) == SubSeq(seq, 1, j - 1) \o SubSeq(seq, j + 1, Len(seq))

\* a sort that puts the smallest tuple first (reverse left out)
RECURSIVE SortAscending(_)
SortAscending(seq) ==
    IF seq = <<>> THEN <<>>
    ELSE LET j == CHOOSE a \in DOMAIN seq :
                     \A b \in DOMAIN seq :
                         \/ TupleLess(seq[a], seq[b])
                         \/ (~TupleLess(seq[b], seq[a]) /\ a <= b)
         IN  <<seq[j]>> \o SortAscending(RemoveAt(seq, j))

\* no sort at all: the entries stay in the order they were collected
SortDescending_Unsorted(seq) == seq

\* results.sort(reverse=True): the largest tuple first, equal tuples in
\* their original order
RECURSIVE SortDescending(_)
SortDescending(seq) ==
    IF seq = <<>> THEN <<>>
    ELSE LET j == CHOOSE a \in DOMAIN seq :
                     \A b \in DOMAIN seq :
                         \/ TupleLess(seq[b], seq[a])
                         \/ (~TupleLess(seq[a], seq[b]) /\ a <= b)
         IN  <<seq[j]>> \o SortDescending(RemoveAt(seq, j))

\* a slice taken from the wrong end: results[-top_k:]
Slice_FromEnd(seq, k) ==
    IF k > 0
    THEN SubSeq(seq, IF Len(seq) - k >= 0 THEN Len(seq) - k + 1 ELSE 1, Len(seq))
    ELSE seq

\* results[:top_k]; a negative top_k counts from the end
Slice(seq, k) ==
    IF k >= 0
    THEN SubSeq(seq, 1, IF k < Len(seq) THEN k ELSE Len(seq))
    ELSE SubSeq(seq, 1, IF Len(seq) + k > 0 THEN Len(seq) + k ELSE 0)

\* a collection without the `if path:` test
Collected_NoPathCheck(res, seen, r) ==
    IF path_hash(r.path) \notin seen
    THEN [results |-> Append(res, [score |-> r.score, path |-> r.path, dist |-> r.dist]),
          seen    |-> seen \cup {path_hash(r.path)}]
    ELSE [results |-> res, seen |-> seen]

\* the body of `if path:`: a new path hash is recorded and its candidate
\* appended, a known one drops the candidate
Collected(res, seen, r) ==
    IF r.path # NoPath /\ path_hash(r.path) \notin seen
    THEN [results |-> Append(res, [score |-> r.score, path |-> r.path, dist |-> r.dist]),
          seen    |-> seen \cup {path_hash(r.path)}]
    ELSE [results |-> res, seen |-> seen]

\* find_top_loops as a function of the outcomes its attempts return, in the
\* order they return them: the for loop over the outcomes, the sort, the
\* slice
RECURSIVE CollectAll(_, _, _)
CollectAll(outcomes, j, acc) ==
    IF j > Len(outcomes) THEN acc
    ELSE CollectAll(outcomes, j + 1, Collected(acc.results, acc.seen, outcomes[j]))

find_top_loops(outcomes, k) ==
    Slice(SortDescending(CollectAll(outcomes, 1, [results |-> <<>>, seen |-> {}]).results), k)

(***************************************************************************)
(* The graphs the search runs on.  Node 1 is the start; node 2 lies 60 m   *)
(* from it (close for main copy.py only), nodes 3 and 4 lie further away.  *)
(***************************************************************************)
SearchNodes ==
    <<[x |-> 0, y |-> 0], [x |-> 60, y |-> 0], [x |-> 0, y |-> 150],
      [x |-> 200, y |-> 0]>>

Street(u, v, k, len) == Edge(u, v, k, TRUE, len, StrHighway("residential"))

\* a triangle with both directions of every street
Triangle ==
    {Street(1, 2, 0, 10), Street(2, 1, 0, 10),
     Street(2, 3, 0, 10), Street(3, 2, 0, 15),
     Street(3, 1, 0, 20), Street(1, 3, 0, 20)}

\* optional extras: a self-loop at node 2, a self-loop at the start, a
\* second, parallel street from 1 to 2, and a way back through node 4
SelfLoop  == {Street(2, 2, 0, 10)}
StartLoop == {Street(1, 1, 0, 10)}
Parallel  == {Street(1, 2, 1, 8)}
Detour    == {Street(2, 4, 0, 10), Street(4, 1, 0, 20)}

Extras == {SelfLoop, StartLoop, Parallel, Detour}

\* a start without any street, a dead end, and the triangle with any extras
SearchEdgeSets ==
    {{}, {Street(1, 2, 0, 10)}}
        \cup {Triangle \cup UNION X : X \in SUBSET Extras}

SearchGraphs == {[nodes |-> SearchNodes, edges |-> E] : E \in SearchEdgeSets}

\* the (target_dist, margin) pairs asked for; margin in percent
Requests == {<<0, 5>>, <<40, 5>>, <<40, 20>>}

(***************************************************************************)
(* Spec: one call of find_top_loops.                                       *)
(***************************************************************************)
Init ==
    /\ variant \in {"main", "copy"}
    /\ mode = "walk"
    /\ G \in SearchGraphs
    /\ G0 = EmptyGraph
    /\ runs = 0
    /\ start = 1
    /\ \E rq \in Requests : target_dist = rq[1] /\ margin = rq[2]
    /\ attempts \in 0..MaxAttempts
    /\ top_k \in 0..MaxTopK
    \* the default of max_steps, scaled down to MaxSteps so that a walk on
    \* a small graph can run into it
    /\ max_steps = MaxSteps
    /\ IdleEngine
    /\ IdleWalk
    /\ pc = "loop"

\* for i in range(1, attempts + 1): random_loop(...) is called and sets up
\* its locals
BeginAttempt ==
    /\ pc = "loop"
    /\ i < attempts
    /\ i' = i + 1
    /\ path' = <<start>>
    /\ dist' = 0
    /\ steps' = 0
    /\ node' = start
    /\ visited_edges' = EmptyVisitedEdges
    /\ node_visits' = [n \in NodeIds(G) |-> 0]
    /\ pc' = "walk"
    /\ UNCHANGED <<graphVars, configVars, results, seen_hashes, output,
                   candidates, ret>>

\* the locals after the move to neighbor nb
Moved(nb) ==
    [path  |-> Append(path, nb),
     dist  |-> dist + GetLength(FirstEdge(G, node, nb), DEFAULT_EDGE_LENGTH),
     steps |-> steps + 1,
     visited_edges |-> RecordEdge(visited_edges, node, nb),
     node_visits   |-> [node_visits EXCEPT ![nb] = @ + 1]]

\* one iteration of the while loop that moves and does not close
WalkStep ==
    /\ pc = "walk"
    /\ LoopCondition(steps)
    /\ \E nb \in Choices(G, path, node_visits, node) :
             LET m  == Moved(nb)
             IN  /\ ~Closing(G, m.dist, target_dist, margin, nb, start)
                 /\ path' = m.path
                 /\ dist' = m.dist
                 /\ steps' = m.steps
                 /\ node' = nb
                 /\ visited_edges' = m.visited_edges
                 /\ node_visits' = m.node_visits
    /\ UNCHANGED <<graphVars, configVars, engineVars, ret, pc>>

\* one iteration that moves and meets the closing condition: random_loop
\* returns path, dist, score
WalkClose ==
    /\ pc = "walk"
    /\ LoopCondition(steps)
    /\ \E nb \in Choices(G, path, node_visits, node) :
             LET m  == Moved(nb)
                 r  == [path  |-> m.path,
                        dist  |-> m.dist,
                        score |-> score_path(m.path, m.dist, target_dist,
                                             m.visited_edges)]
             IN  /\ Closing(G, m.dist, target_dist, margin, nb, start)
                 /\ path' = m.path
                 /\ dist' = m.dist
                 /\ steps' = m.steps
                 /\ node' = nb
                 /\ visited_edges' = m.visited_edges
                 /\ node_visits' = m.node_visits
                 /\ ret' = r
                 /\ candidates' = Append(candidates, r)
    /\ pc' = "returned"
    /\ UNCHANGED <<graphVars, configVars, i, results, seen_hashes, output>>

\* an iteration in which every neighbor is skipped and the loop goes on
\* (no `if not moved: break`)
WalkStuck_NoBreak ==
    /\ pc = "walk"
    /\ LoopCondition(steps)
    /\ Choices(G, path, node_visits, node) = {}
    /\ UNCHANGED vars

\* one iteration in which every neighbor is skipped: `if not moved: break`,
\* and random_loop returns None, 0, -inf
WalkStuck ==
    /\ pc = "walk"
    /\ LoopCondition(steps)
    /\ Choices(G, path, node_visits, node) = {}
    /\ ret' = NoRet
    /\ pc' = "returned"
    /\ UNCHANGED <<graphVars, configVars, engineVars, path, dist, steps, node,
                   visited_edges, node_visits>>

\* the while loop ends on its condition: random_loop returns None, 0, -inf
WalkExhausted ==
    /\ pc = "walk"
    /\ ~LoopCondition(steps)
    /\ ret' = NoRet
    /\ pc' = "returned"
    /\ UNCHANGED <<graphVars, configVars, engineVars, path, dist, steps, node,
                   visited_edges, node_visits>>

\* find_top_loops takes the returned value
Collect ==
    /\ pc = "returned"
    /\ LET c == Collected(results, seen_hashes, ret)
       IN  /\ results' = c.results
           /\ seen_hashes' = c.seen
    /\ pc' = "loop"
    /\ UNCHANGED <<graphVars, configVars, i, output, candidates, walkVars>>

\* after the last attempt: results.sort(reverse=True); return results[:top_k]
Finish ==
    /\ pc = "loop"
    /\ ~(i < attempts)
    /\ results' = SortDescending(results)
    /\ output' = Slice(SortDescending(results), top_k)
    /\ pc' = "done"
    /\ UNCHANGED <<graphVars, configVars, i, seen_hashes, candidates, walkVars>>

Next ==
    \/ BeginAttempt
    \/ WalkStep
    \/ WalkClose
    \/ WalkStuck
    \/ WalkExhausted
    \/ Collect
    \/ Finish

Spec == Init /\ [][Next]_vars

\* SpecFair: the same call on a start without any street, a dead end, the
\* triangle, and the triangle with a street from the start to the start.
\* The script is one sequential process that keeps running: a statement
\* that can run does run.
FairGraphs ==
    {[nodes |-> SearchNodes, edges |-> es] :
        es \in {{}, {Street(1, 2, 0, 10)}, Triangle, Triangle \cup StartLoop}}

InitFair ==
    /\ variant \in {"main", "copy"}
    /\ mode = "walk"
    /\ G \in FairGraphs
    /\ G0 = EmptyGraph
    /\ runs = 0
    /\ start = 1
    /\ target_dist = 40
    /\ margin \in {5, 20}
    /\ attempts \in 1..MaxAttempts
    /\ top_k = MaxTopK
    /\ max_steps = MaxSteps
    /\ IdleEngine
    /\ IdleWalk
    /\ pc = "loop"

SpecFair == InitFair /\ [][Next]_vars /\ WF_vars(Next)

(***************************************************************************)
(* Claims about the preprocessing (checked under SpecPre).                 *)
(***************************************************************************)

\* C9: preprocessing is idempotent: once a graph has been cleaned, cleaning
\* it again (same variant, same mode) removes no further edge and no
\* further node, clean(clean(G, m), m) = clean(G, m).
C9_PreprocessIdempotent ==
    runs >= 1 => clean(G, mode) = G

\* C9 witness: a graph cleaned twice whose first cleaning removed an edge
\* and a node and kept an edge.
C9_Witness ==
    /\ runs = 2
    /\ G.edges # {}
    /\ G.edges # G0.edges
    /\ NodeIds(G) # NodeIds(G0)

\* C10: after preprocessing, in both variants and every mode, no retained
\* node is isolated (every node has at least one incident edge).  Stated for
\* the raw graphs that had no isolated node to begin with, so that a node
\* found isolated was left behind by the edge removal itself.
C10_NoIsolatedNodeAfterCleaning ==
    (runs >= 1 /\ \A n \in NodeIds(G0) : \E e \in G0.edges : e.u = n \/ e.v = n)
        => \A n \in NodeIds(G) : \E e \in G.edges : e.u = n \/ e.v = n

(***************************************************************************)
(* Claims about the search (checked under Spec).                           *)
(***************************************************************************)
Last(p) == p[Len(p)]

\* the distinct nodes a path visits
LoopKey(p) == {p[j] : j \in DOMAIN p}

\* (1 - margin) * target <= d <= (1 + margin) * target
InBand(d) ==
    /\ (100 - margin) * target_dist <= 100 * d
    /\ 100 * d <= (100 + margin) * target_dist

\* the straight-line distance from node n to the start is below the threshold
NearStart(n) ==
    Abs(G.nodes[n].y - G.nodes[start].y) + Abs(G.nodes[n].x - G.nodes[start].x)
        < threshold_m

\* the configurations the engine is meant to accept
ValidConfig == target_dist > 0 /\ attempts > 0 /\ top_k > 0

\* C1: in both variants every candidate random_loop returns, and every
\* entry find_top_loops returns, has its distance inside the margin band
\* around the target and its last node closer to the start than the
\* proximity threshold.  Stated for the calls with a valid configuration.
C1_CandidatesMeetClosingCondition ==
    ValidConfig =>
        /\ \A j \in DOMAIN candidates :
              InBand(candidates[j].dist) /\ NearStart(Last(candidates[j].path))
        /\ \A j \in DOMAIN output :
              InBand(output[j].dist) /\ NearStart(Last(output[j].path))

Min(a, b) == IF a <= b THEN a ELSE b

\* C2: with top_k >= 1 the returned list is no longer than
\* min(top_k, number of distinct LoopKeys among the successful attempts) and
\* its scores never increase from one entry to the next.
C2_ResultSetBoundedAndSorted ==
    (pc = "done" /\ top_k >= 1) =>
        /\ Len(output) <=
              Min(top_k, Cardinality({LoopKey(candidates[j].path) :
                                         j \in DOMAIN candidates}))
        /\ \A j \in 1..(Len(output) - 1) : output[j].score >= output[j + 1].score

\* C2 witness: a finished call that found loops of two shapes, the better
\* one last, and returned the one asked for.
C2_Witness ==
    /\ pc = "done"
    /\ top_k = 1
    /\ Len(candidates) = 2
    /\ candidates[2].score > candidates[1].score
    /\ Len(results) = 2
    /\ Len(output) = 1
    /\ output[1].score = candidates[2].score

\* C3: the retained candidates, and the returned ones, have pairwise
\* distinct LoopKeys; every candidate produced so far and handed to
\* find_top_loops has exactly one retained entry with its LoopKey; the seen
\* set is the set of LoopKeys of the retained candidates.
C3_DedupByLoopKey ==
    /\ \A a, b \in DOMAIN results :
          a # b => LoopKey(results[a].path) # LoopKey(results[b].path)
    /\ \A a, b \in DOMAIN output :
          a # b => LoopKey(output[a].path) # LoopKey(output[b].path)
    /\ {LoopKey(h) : h \in seen_hashes}
          = {LoopKey(results[j].path) : j \in DOMAIN results}
    /\ Cardinality(seen_hashes) = Len(results)
    /\ pc # "returned" =>
          \A c \in DOMAIN candidates :
              Cardinality({j \in DOMAIN results :
                              LoopKey(results[j].path)
                                  = LoopKey(candidates[c].path)}) = 1

\* C3 witness: two candidates that walk the same nodes in different orders
\* were both handed in, and one entry is retained.
C3_Witness ==
    /\ pc = "loop"
    /\ Len(candidates) = 2
    /\ candidates[1].path # candidates[2].path
    /\ LoopKey(candidates[1].path) = LoopKey(candidates[2].path)
    /\ Len(results) = 1

\* C4 as claimed: the first returned entry has the highest score of all the
\* candidates the successful attempts produced.
C4_TopIsBestOfAllCandidates ==
    (pc = "done" /\ output # <<>>) =>
        \A j \in DOMAIN candidates : candidates[j].score <= output[1].score

\* the candidates that were the first produced with their LoopKey
FirstOfKey(j) ==
    \A m \in 1..(j - 1) : LoopKey(candidates[m].path) # LoopKey(candidates[j].path)

\* C4 as amended: the first returned entry has the highest score among the
\* candidates that were the first found with their LoopKey (a later
\* candidate with a known LoopKey is dropped whatever its score).
C4_TopIsBestOfFirstFound ==
    (pc = "done" /\ output # <<>>) =>
        \A j \in DOMAIN candidates :
            FirstOfKey(j) => candidates[j].score <= output[1].score

\* C4 witness: a finished call whose second candidate repeated the first
\* one's LoopKey with a higher score and was dropped.
C4_Witness ==
    /\ pc = "done"
    /\ Len(candidates) = 2
    /\ ~FirstOfKey(2)
    /\ candidates[2].score > candidates[1].score
    /\ Len(output) = 1
    /\ output[1].score = candidates[1].score

\* C5: a call with target_dist <= 0, attempts <= 0 or top_k <= 0 is
\* rejected before any attempt: random_loop is never entered and no result
\* list is returned.
C5_InvalidConfigurationRejected ==
    ~ValidConfig =>
        pc \notin {"walk", "returned", "done"}

\* C6: as long as no attempt has produced a candidate nothing is retained
\* and nothing is seen, and a call that ends that way returns the empty
\* list; whatever is retained was produced by a successful attempt.
C6_NoCandidateEmptyResult ==
    /\ candidates = <<>> => (results = <<>> /\ seen_hashes = {})
    /\ (pc = "done" /\ candidates = <<>>) => output = <<>>
    /\ \A j \in DOMAIN results :
          \E c \in DOMAIN candidates :
              /\ results[j].path = candidates[c].path
              /\ results[j].dist = candidates[c].dist
              /\ results[j].score = candidates[c].score

\* C6 witness: the start has no neighbor, two attempts were asked for and
\* made, and the call returned the empty list.
C6_Witness ==
    /\ pc = "done"
    /\ Neighbors(G, start) = {}
    /\ attempts = 2
    /\ i = 2
    /\ top_k >= 1
    /\ candidates = <<>>
    /\ output = <<>>

\* C7: during an attempt the number of transitions of the path equals the
\* step counter and never exceeds max_steps; no candidate has more than
\* max_steps transitions.
C7_StepsBounded ==
    /\ path # NoPath => (Len(path) - 1 = steps /\ steps <= max_steps)
    /\ \A j \in DOMAIN candidates : Len(candidates[j].path) - 1 <= max_steps
    /\ \A j \in DOMAIN output : Len(output[j].path) - 1 <= max_steps

\* C7 witness: a candidate that closed on the last step the bound allows.
C7_Witness ==
    /\ pc = "returned"
    /\ ret.path # NoPath
    /\ steps = max_steps
    /\ Len(ret.path) - 1 = max_steps

\* C8: no path, finished or not, returns to the node it left one step
\* before: path[j + 2] # path[j] whenever both exist; from a path of one
\* node the walk can move to every neighbor, the node itself included.
C8_NoImmediateBacktrack ==
    /\ \A j \in 1..(Len(path) - 2) : path[j + 2] # path[j]
    /\ \A c \in DOMAIN candidates :
          \A j \in 1..(Len(candidates[c].path) - 2) :
              candidates[c].path[j + 2] # candidates[c].path[j]
    /\ (pc = "walk" /\ Len(path) = 1) =>
          Choices(G, path, node_visits, node) = Neighbors(G, node)

\* C8 witness: on a graph with a self-loop and a parallel street the walk
\* took the self-loop at the start and came back to the start later.
C8_Witness ==
    /\ Parallel \subseteq G.edges
    /\ StartLoop \subseteq G.edges
    /\ Len(path) >= 5
    /\ path[2] = path[1]
    /\ path[5] = path[1]

(***************************************************************************)
(* SpecCycle: find_top_loops on the six-node cycle A..F (nodes 1..6),      *)
(* every street 100 m long and passable in both directions, searched from  *)
(* A with a target of 600 m and a margin of 10 percent and the default     *)
(* max_steps.  Only A lies within the proximity threshold of A.            *)
(***************************************************************************)
CycleNodes ==
    [n \in 1..6 |->
        CASE n = 1 -> [x |-> 0,   y |-> 0]
          [] n = 2 -> [x |-> 100, y |-> 0]
          [] n = 3 -> [x |-> 200, y |-> 0]
          [] n = 4 -> [x |-> 200, y |-> 100]
          [] n = 5 -> [x |-> 100, y |-> 100]
          [] OTHER -> [x |-> 0,   y |-> 100]]

CycleNext(n) == IF n = 6 THEN 1 ELSE n + 1

CycleGraph ==
    [nodes |-> CycleNodes,
     edges |-> UNION {{Street(n, CycleNext(n), 0, 100),
                       Street(CycleNext(n), n, 0, 100)} : n \in 1..6}]

InitCycle ==
    /\ variant \in {"main", "copy"}
    /\ mode = "walk"
    /\ G = CycleGraph
    /\ G0 = EmptyGraph
    /\ runs = 0
    /\ start = 1
    /\ target_dist = 600
    /\ margin = 10
    /\ attempts \in 1..MaxAttempts
    /\ top_k \in 1..MaxTopK
    /\ max_steps = default_max_steps
    /\ IdleEngine
    /\ IdleWalk
    /\ pc = "loop"

\* the statements of find_top_loops and random_loop that run on the cycle
NextCycle ==
    \/ BeginAttempt
    \/ WalkStep
    \/ WalkClose
    \/ Collect
    \/ Finish

\* the script is one sequential process that keeps running: a statement
\* that can run does run
SpecCycle == InitCycle /\ [][NextCycle]_vars /\ WF_vars(NextCycle)

(***************************************************************************)
(* Claims about the search on the six-node cycle (checked under SpecCycle).*)
(***************************************************************************)
Clockwise        == <<1, 2, 3, 4, 5, 6, 1>>
CounterClockwise == <<1, 6, 5, 4, 3, 2, 1>>

\* C11: on the six-node cycle every attempt eventually succeeds, after
\* exactly 6 steps, with distance 600 and a path that is the full cycle in
\* one of the two directions; find_top_loops eventually returns, and with
\* attempts = 1 it returns exactly one entry, whose LoopKey is {A..F}.
C11_CycleAlwaysFound ==
    /\ <>(pc = "done")
    /\ [](pc = "loop" /\ i < attempts => <>(pc = "returned"))
    /\ [](pc = "returned" =>
            /\ ret.path \in {Clockwise, CounterClockwise}
            /\ ret.dist = 600
            /\ steps = 6)
    /\ []((pc = "done" /\ attempts = 1) =>
            /\ Len(output) = 1
            /\ LoopKey(output[1].path) = 1..6)

C11_Witness ==
    /\ pc = "done"
    /\ attempts = 1
    /\ Len(output) = 1
    /\ output[1].path = CounterClockwise
    /\ output[1].dist = 600

(***************************************************************************)
(* Further claims about the search (checked under Spec).                   *)
(***************************************************************************)
\* the outcomes of the attempts made so far: the candidates and one failure
\* for every attempt that returned none
Outcomes == candidates \o [j \in 1..(i - Len(candidates)) |-> NoRet]

Reorderings(seq) ==
    {[j \in 1..Len(seq) |-> seq[order[j]]] : order \in Shuffles(1..Len(seq))}

Entries(seq) == {seq[j] : j \in DOMAIN seq}

\* C12 as claimed: the set of returned candidates is the same whatever the
\* order in which the outcomes of the attempts are processed.
C12_OrderIndependent ==
    (pc = "done" /\ ValidConfig) =>
        \A other \in Reorderings(Outcomes) :
            Entries(find_top_loops(other, top_k)) = Entries(output)

\* no two different candidates have the same LoopKey
KeysIdentifyCandidates ==
    \A a, b \in DOMAIN candidates :
        LoopKey(candidates[a].path) = LoopKey(candidates[b].path)
            => candidates[a] = candidates[b]

\* C12 amended: when no two different candidates share a LoopKey, every
\* order of processing the outcomes yields the same returned list.
C12_OrderIndependentWhenKeysIdentify ==
    (pc = "done" /\ KeysIdentifyCandidates) =>
        \A other \in Reorderings(Outcomes) :
            find_top_loops(other, top_k) = output

C12_Witness ==
    /\ pc = "done"
    /\ Len(candidates) = 2
    /\ LoopKey(candidates[1].path) # LoopKey(candidates[2].path)
    /\ candidates[1].score < candidates[2].score
    /\ Len(output) = 1
    /\ output[1].path = candidates[2].path

(***************************************************************************)
(* SpecScore: score_path applied to one input.  The paths are a run over   *)
(* n fresh nodes 1..n followed by up to two returns to the first, the      *)
(* second or the last of them; n goes beyond the subloop window of either  *)
(* script, so that a return may fall inside or outside the window.         *)
(***************************************************************************)
MaxDistinct == 31

FreshRun(n) == [j \in 1..n |-> j]

Returns(n) ==
    {<<>>} \cup {<<a>> : a \in {1, 2, n}} \cup {<<a, b>> : a, b \in {1, 2, n}}

ScorePaths == UNION {{FreshRun(n) \o r : r \in Returns(n)} : n \in 1..MaxDistinct}

\* visited_edges as score_path may receive it: nothing for main.py, a
\* tally per sorted pair for main copy.py
ScoreTallies ==
    IF variant = "main" THEN {{}}
    ELSE {[e \in {} |-> 0],
          [e \in {<<1, 2>>} |-> 2],
          [e \in {<<1, 2>>, <<2, 3>>} |-> IF e = <<1, 2>> THEN 1 ELSE 3],
          [e \in {<<1, 2>>, <<2, 3>>} |-> 2]}

ScoreDists == {580, 600}

InitScore ==
    /\ variant \in {"main", "copy"}
    /\ mode = "walk"
    /\ G = EmptyGraph
    /\ G0 = EmptyGraph
    /\ runs = 0
    /\ start = 1
    /\ target_dist = 600
    /\ margin = 0
    /\ attempts = 0
    /\ top_k = 0
    /\ max_steps = default_max_steps
    /\ IdleEngine
    /\ path \in ScorePaths
    /\ dist \in ScoreDists
    /\ steps = Len(path) - 1
    /\ node = path[Len(path)]
    /\ visited_edges \in ScoreTallies
    /\ node_visits = <<>>
    /\ ret = NoRet
    /\ pc = "input"

\* score = score_path(path, dist, target_dist[, visited_edges])
ScorePath ==
    /\ pc = "input"
    /\ ret' = [path  |-> path,
               dist  |-> dist,
               score |-> score_path(path, dist, target_dist, visited_edges)]
    /\ pc' = "scored"
    /\ UNCHANGED <<graphVars, configVars, engineVars, path, dist, steps, node,
                   visited_edges, node_visits>>

NextScore == ScorePath

SpecScore == InitScore /\ [][NextScore]_vars

(***************************************************************************)
(* Claims about score_path (checked under SpecScore).                      *)
(***************************************************************************)
\* the counts score_path derives from a path, for every path of ScorePaths
PathCounts ==
    [p \in ScorePaths |->
        [unique        |-> Cardinality(NodeSet(p)),
         repeated      |-> Len(p) - Cardinality(NodeSet(p)),
         subloops_main |-> Subloops(p, SUBLOOP_WINDOW_MAIN),
         subloops_copy |-> Subloops(p, SUBLOOP_WINDOW_COPY)]]

SubloopCount(p) ==
    IF variant = "main" THEN PathCounts[p].subloops_main ELSE PathCounts[p].subloops_copy

RepeatedEdges(ve) ==
    IF variant = "main" THEN 0 ELSE Cardinality({e \in DOMAIN ve : ve[e] > 1})

\* q has more repeated nodes than the scored path and agrees with it on the
\* other counts
MoreRepeated(q, ve) ==
    /\ PathCounts[q].unique = PathCounts[path].unique
    /\ SubloopCount(q) = SubloopCount(path)
    /\ RepeatedEdges(ve) = RepeatedEdges(visited_edges)
    /\ PathCounts[q].repeated > PathCounts[path].repeated

\* C13: with distance, target, distinct-node count, subloop count and
\* repeated-edge count the same, the path with more repeated nodes gets the
\* strictly lower score.
C13_ScoreDecreasesWithRepeats ==
    pc = "scored" =>
        \A q \in ScorePaths, ve \in ScoreTallies :
            MoreRepeated(q, ve) =>
                score_path(q, dist, target_dist, ve) < ret.score

C13_Witness ==
    /\ pc = "scored"
    /\ variant = "copy"
    /\ PathCounts[path].repeated = 1
    /\ \E q \in ScorePaths :
           /\ MoreRepeated(q, visited_edges)
           /\ score_path(q, dist, target_dist, visited_edges) < ret.score

(***************************************************************************)
(* SpecHub: find_top_loops with the default max_steps on the triangle,     *)
(* alone or with a street that leads from the start back to the start, a  *)
(* second street from 1 to 2, or a detour with an unmeasured street.  The  *)
(* walks are long enough for a node to come back several times.            *)
(***************************************************************************)
\* a detour over node 4 whose first street carries no length attribute
\* (a graph handed to the search without cleaning)
Unmeasured ==
    {Edge(2, 4, 0, FALSE, 0, StrHighway("residential")), Street(4, 1, 0, 20)}

HubGraphs ==
    {[nodes |-> SearchNodes, edges |-> es] :
        es \in {Triangle, Triangle \cup StartLoop, Triangle \cup Parallel,
                Triangle \cup Unmeasured}}

InitHub ==
    /\ variant \in {"main", "copy"}
    /\ mode = "walk"
    /\ G \in HubGraphs
    /\ G0 = EmptyGraph
    /\ runs = 0
    /\ start = 1
    /\ \E rq \in Requests : target_dist = rq[1] /\ margin = rq[2]
    /\ attempts = 1
    /\ top_k = 1
    /\ max_steps = default_max_steps
    /\ IdleEngine
    /\ IdleWalk
    /\ pc = "loop"

\* the statements that run: the revisit cap ends every walk long before
\* the default max_steps
NextHub ==
    \/ BeginAttempt
    \/ WalkStep
    \/ WalkClose
    \/ WalkStuck
    \/ Collect
    \/ Finish

SpecHub == InitHub /\ [][NextHub]_vars

(***************************************************************************)
(* Claims about long walks (checked under SpecHub).                        *)
(***************************************************************************)
Occurrences(p, n) == Cardinality({j \in DOMAIN p : p[j] = n})

\* C14: in a call with a valid configuration every node, the start
\* included, occurs at most 3 times in the path of an attempt and in the
\* path of a candidate.
C14_NodeOccursAtMostThreeTimes ==
    ValidConfig =>
        /\ path # NoPath =>
               \A n \in NodeIds(G) : Occurrences(path, n) <= NODE_VISIT_CAP
        /\ \A j \in DOMAIN candidates :
               \A n \in NodeIds(G) :
                   Occurrences(candidates[j].path, n) <= NODE_VISIT_CAP

\* the part of C14 that holds: a node other than the start occurs at most
\* 3 times, the start at most 4 times
C14_CapCountsArrivals ==
    path # NoPath =>
        \A n \in NodeIds(G) :
            Occurrences(path, n) <= NODE_VISIT_CAP + (IF n = start THEN 1 ELSE 0)

HubStepsBelowDefault == path # NoPath => steps < max_steps

(***************************************************************************)
(* Claims about termination (checked under SpecFair).                      *)
(***************************************************************************)
\* C15: every attempt eventually returns, a candidate or the failure
\* result, after at most max_steps steps; a walk whose node has no eligible
\* neighbor returns the failure result at once; find_top_loops eventually
\* returns.
C15_Terminates ==
    /\ [](pc = "walk" => <>(pc = "returned"))
    /\ [](pc = "returned" =>
            /\ steps <= max_steps
            /\ ret = NoRet \/ (ret.path = path /\ ret \in Entries(candidates)))
    /\ [][(pc = "walk" /\ Choices(G, path, node_visits, node) = {})
            => (pc' = "returned" /\ ret' = NoRet /\ steps' = steps)]_vars
    /\ <>(pc = "done")

C15_Witness ==
    /\ pc = "done"
    /\ i = 2
    /\ Len(candidates) = 1
    /\ ret = NoRet
    /\ steps = max_steps

(***************************************************************************)
(* Further claims about the preprocessing (checked under SpecPre).         *)
(***************************************************************************)
MinimumLength == IF variant = "main" THEN MIN_LENGTH_MAIN ELSE MIN_LENGTH_COPY

ExclusionSet == IF variant = "main" THEN bad_tags ELSE bad_highway_tags

TagsOf(e) == {e.highway.tags[j] : j \in DOMAIN e.highway.tags}

TooShort(e) == ~e.has_length \/ e.length < MinimumLength

ExcludedByTag(e) == mode = "walk" /\ TagsOf(e) \cap ExclusionSet # {}

\* C16: after the preprocessing the edges of the graph are exactly the
\* edges of the input that have a length at or above the minimum and, in
\* pedestrian mode, no tag of the exclusion set; in another mode no tag
\* removes an edge.
C16_RemovesExactlyUnsuitableEdges ==
    runs >= 1 =>
        G.edges = {e \in G0.edges : ~TooShort(e) /\ ~ExcludedByTag(e)}

C16_Witness ==
    /\ runs = 1
    /\ mode = "walk"
    /\ Cardinality(G0.edges) = 2
    /\ Cardinality(G.edges) = 1
    /\ \E e \in G0.edges \ G.edges :
           e.highway.kind = "list" /\ ~TooShort(e)

\* C17: the graph object handed to the preprocessing has, after the call,
\* the nodes and edges it had before the call.
C17_InputGraphUnchanged ==
    runs = 1 => (G.nodes = G0.nodes /\ G.edges = G0.edges)

(***************************************************************************)
(* A further claim about the six-node cycle (checked under SpecCycle).     *)
(***************************************************************************)
\* p leaves the start, visits pairwise different nodes and returns to it
SimpleClosedLoop(p) ==
    /\ Len(p) >= 3
    /\ p[1] = start
    /\ p[Len(p)] = start
    /\ \A a, b \in 1..(Len(p) - 1) : a # b => p[a] # p[b]

\* C18: a candidate whose path is a simple closed loop is scored without
\* any repeat or subloop penalty: its score is -|dist - target| plus
\* W_unique for every distinct node.
C18_ClosedLoopScoredWithoutPenalty ==
    \A j \in DOMAIN candidates :
        SimpleClosedLoop(candidates[j].path) =>
            candidates[j].score =
                0 - Abs(candidates[j].dist - target_dist)
                  + Cardinality(NodeSet(candidates[j].path)) * W_UNIQUE

(***************************************************************************)
(* A further claim about the walk (checked under SpecHub).                 *)
(***************************************************************************)
\* the pair (p[j], p[j + 1]) is joined by a street and the first of the
\* parallel streets from p[j] to p[j + 1] carries a length
Measured(p, j) ==
    /\ get_edge_data(G, p[j], p[j + 1]) # {}
    /\ FirstEdge(G, p[j], p[j + 1]).has_length

RECURSIVE LengthOfFirstEdges(_, _)
LengthOfFirstEdges(p, j) ==
    IF j >= Len(p) THEN 0
    ELSE FirstEdge(G, p[j], p[j + 1]).length + LengthOfFirstEdges(p, j + 1)

\* C19: while an attempt runs and when it returns, the path begins at the
\* start, every consecutive pair of it is joined by a street whose first
\* parallel edge carries a length, and dist is the sum of these lengths.
C19_PathFollowsMeasuredEdges ==
    (ValidConfig /\ path # NoPath) =>
        /\ path[1] = start
        /\ \A j \in 1..(Len(path) - 1) : Measured(path, j)
        /\ dist = LengthOfFirstEdges(path, 1)

\* the part of C19 that holds: the path begins at the start, follows
\* streets of the graph, and dist is the sum of the lengths of the first
\* parallel edges, an edge without length counted as 1
C19_PathFollowsEdges ==
    path # NoPath =>
        /\ path[1] = start
        /\ \A j \in 1..(Len(path) - 1) : get_edge_data(G, path[j], path[j + 1]) # {}
        /\ dist = LengthOfFirstEdges(path, 1)
                    + Cardinality({j \in 1..(Len(path) - 1) : ~Measured(path, j)})

=============================================================================
